---- MODULE Spec2Model ----
(***************************************************************************)
(* A model of the tRPC procedure-execution core and of its postMessage     *)
(* transport handler.                                                      *)
(*                                                                         *)
(*   Procedure.call      src/examples/.../components/Main.tsx  (287-347)   *)
(*   applyPMSHandler     src/unnamed/part_001                  (109-264)   *)
(*   observable          src/unnamed/part_002                  (8-71)      *)
(*                                                                         *)
(* Three specifications share the module: SpecProcedure runs one           *)
(* Procedure.call through its middleware chain, SpecPMS runs the           *)
(* transport handler over a bounded number of inbound messages,            *)
(* SpecObservable runs one subscription of an observable.                  *)
(***************************************************************************)
EXTENDS Integers, Sequences, FiniteSets, TLC

(***************************************************************************)
(* Bounds of the model.                                                    *)
(***************************************************************************)
\* the longest middleware list a procedure is given
MaxMiddlewares == 3
\* the number of envelopes the transport handler is given, over all messages
MaxEnvelopes == 2
\* the number of data and error events the subscriptions emit in all
MaxEvents == 2
\* the number of next, error and complete calls the producer makes
MaxSignals == 3
\* the number of times the consumer calls unsubscribe
MaxUnsubscribes == 2
\* how deep a teardown that calls unsubscribe is followed into itself
MaxReentry == 1

(***************************************************************************)
(* Values.                                                                 *)
(***************************************************************************)
\* contexts: the one Procedure.call is given, and two a middleware can pass on
CallCtx == "ctx0"
SwapCtxs == {"ctx1", "ctx2"}

\* raw inputs, told apart by what the input parser does with them
RawInputs == {"goodInput", "badInput"}
\* what the resolver does: return a value the output parser accepts, return
\* one it rejects, or throw
ResolverDoes == {"goodOutput", "badOutput", "throws"}

\* the `cause` of an error made without one
NoCause == "none"

\* new TRPCError({code, message, cause})
TRPCError(code, message, cause) ==
  [name |-> "TRPCError", code |-> code, message |-> message, cause |-> cause]

\* a plain Error thrown by user code (a middleware or the resolver)
PlainError(message) ==
  [name |-> "Error", code |-> "none", message |-> message, cause |-> NoCause]

\* getErrorFromUnknown: a TRPCError is kept as it is, anything else is wrapped
getErrorFromUnknown(e) ==
  IF e.name = "TRPCError" THEN e
  ELSE TRPCError("INTERNAL_SERVER_ERROR", e.message, e.message)

\* what a middleware step hands back: undefined, {ok:true,data,ctx} or {ok:false,error}
NoError == [name |-> "none", code |-> "none", message |-> "none", cause |-> NoCause]
Undefined == [def |-> FALSE, ok |-> FALSE, data |-> "none", ctx |-> "none", error |-> NoError]
OkResult(data, ctx) ==
  [def |-> TRUE, ok |-> TRUE, data |-> data, ctx |-> ctx, error |-> NoError]
ErrResult(e) ==
  [def |-> TRUE, ok |-> FALSE, data |-> "none", ctx |-> "none", error |-> e]

(***************************************************************************)
(* Middlewares.  A middleware function is modelled by what it does with    *)
(* `next`:                                                                 *)
(*   pass        return next()                                             *)
(*   swap        return next({ctx: c})                                     *)
(*   forget      next() is called, its result is not returned              *)
(*   throwAfter  next() is called, then the middleware throws              *)
(*   throw       the middleware throws without calling next                *)
(***************************************************************************)
MiddlewareKinds == {"pass", "swap", "forget", "throwAfter", "throw"}
Middlewares ==
  {[kind |-> k, ctx |-> "none"] : k \in MiddlewareKinds \ {"swap"}}
    \cup {[kind |-> "swap", ctx |-> c] : c \in SwapCtxs}

\* the argument a middleware gives to next: absent, or {ctx: c}
NoOpts == [given |-> FALSE, ctx |-> "none"]
NextOpts(m) == IF m.kind = "swap" THEN [given |-> TRUE, ctx |-> m.ctx] ELSE NoOpts

CallsNext(m) == m.kind # "throw"
\* the middleware calls next once and returns what next returned
WellBehaved(m) == m.kind \in {"pass", "swap"}

VARIABLES
  middlewares,   \* Procedure.middlewares
  procPc,        \* where Procedure.call is
  callOpts,      \* opts of the call: rawInput, ctx
  idx,           \* the step of middlewaresWithResolver that runs or is returned to
  ctxIn,         \* the ctx each step started so far was given
  rawOutput,     \* what the resolver returned
  ret,           \* what the last call of a nextFn came to
  calls,         \* the middlewares and the resolver, as they were invoked
  inherited,     \* the lists inheritMiddlewares was given, in the order of the calls
  outcome,       \* how Procedure.call ended
  clientSubscriptions, \* the Map of the handler, as its entries in insertion order
  tasks,         \* the calls of handleRequest, each with its position
  subs,          \* for each task, the Subscription object its procedure returned
  sent,          \* for each task, the envelopes it and its subscription posted, in order
  listenerSent,  \* the envelopes the catch of the 'message' listener posted
  dispatched,    \* the calls of callProcedure, in order
  received,      \* the number of envelopes the listener was given, over all messages
  msgCount,      \* the number of messages the listener was given
  pendingCatch,  \* messages whose Promise.all has rejected and whose catch has yet to run
  teardownRef,   \* observable.subscribe: what the producer returned, "null" before
  isDone,        \* observable.subscribe: the producer has called error or complete
  unsubscribed,  \* observable.subscribe: the teardown was asked for
  teardownImmediately, \* observable.subscribe: unsubscribe came before teardownRef
  obsPc,         \* where observable.subscribe is: not called, in the producer, returned
  producer,      \* the producer: what it returns and whether its teardown calls unsubscribe
  teardownRuns,  \* the number of times the producer's teardown was executed
  observed,      \* the callbacks of the observer, as they were invoked
  history        \* the calls of next, error, complete and unsubscribe from outside, in order

procVars ==
  <<middlewares, procPc, callOpts, idx, ctxIn, rawOutput, ret, calls, inherited,
    outcome>>
pmsVars ==
  <<clientSubscriptions, subs, tasks, sent, listenerSent, dispatched, received,
    msgCount, pendingCatch>>
obsVars ==
  <<teardownRef, isDone, unsubscribed, teardownImmediately, obsPc, producer,
    teardownRuns, observed, history>>
vars == <<procVars, pmsVars, obsVars>>

NoOutcome == [status |-> "none", data |-> "none", error |-> NoError]

\* what a function call comes to: a value, or a thrown error
Returned(v) == [threw |-> FALSE, value |-> v, error |-> NoError]
Threw(e) == [threw |-> TRUE, value |-> Undefined, error |-> e]

\* createProcedure: a procedure starts without middlewares
InitProcedure ==
  /\ middlewares = <<>>
  /\ procPc = "idle"
  /\ callOpts = [rawInput |-> "none", ctx |-> "none"]
  /\ idx = 0
  /\ ctxIn = <<>>
  /\ rawOutput = "none"
  /\ ret = Returned(Undefined)
  /\ calls = <<>>
  /\ inherited = <<>>
  /\ outcome = NoOutcome

(***************************************************************************)
(* Procedure                                                               *)
(***************************************************************************)
\* the input parser of the procedure accepts goodInput alone
parseInputFn(raw) ==
  IF raw = "goodInput" THEN Returned("parsedInput") ELSE Threw(PlainError("inputParser"))
\* the output parser of the procedure accepts goodOutput alone
parseOutputFn(raw) ==
  IF raw = "goodOutput" THEN Returned("parsedOutput") ELSE Threw(PlainError("outputParser"))

\* a parseInput that lets the parser's rejection pass
parseInputLenient(raw) == Returned("parsedInput")

\* Procedure.parseInput
parseInput(raw) ==
  LET r == parseInputFn(raw) IN
  IF r.threw THEN Threw(TRPCError("BAD_REQUEST", "none", r.error.message)) ELSE r

\* a parseOutput that reports the rejection the way parseInput does
parseOutputAsBadRequest(raw) ==
  LET r == parseOutputFn(raw) IN
  IF r.threw THEN Threw(TRPCError("BAD_REQUEST", "none", r.error.message)) ELSE r

\* Procedure.parseOutput
parseOutput(raw) ==
  LET r == parseOutputFn(raw) IN
  IF r.threw
    THEN Threw(TRPCError("INTERNAL_SERVER_ERROR", "Output validation failed", r.error.message))
    ELSE r

\* the ctx a nextFn gives to its step
NextFnCtx(opts, nextOpts) == IF nextOpts.given THEN nextOpts.ctx ELSE opts.ctx

\* wrapCallSafe: a throw of the step becomes {ok:false, error}
wrapCallSafe(r) ==
  IF r.threw THEN [ok |-> FALSE, data |-> Undefined, error |-> r.error]
  ELSE [ok |-> TRUE, data |-> r.value, error |-> NoError]

\* what a nextFn returns, given what its step came to
NextFnResult(r) ==
  LET res == wrapCallSafe(r) IN
  IF res.ok THEN res.data ELSE ErrResult(getErrorFromUnknown(res.error))

\* a nextFn that calls its step without wrapCallSafe
NextFnUnwrapped(r) == r

\* the call of a nextFn, given what its step came to: it returns, whatever
\* the step did
NextFn(r) == Returned(NextFnResult(r))

\* an inheritMiddlewares that puts the new middlewares last
InheritedListAppended(ms, own) == own \o ms

\* the list inheritMiddlewares gives the new procedure
InheritedList(ms, own) == ms \o own

\* the entry of `calls` for the resolver
ResolverCall == [fn |-> "resolver", mw |-> [kind |-> "none", ctx |-> "none"]]

\* the index of the wrapped resolver in middlewaresWithResolver
ResolverAt == Len(middlewares) + 1

\* what a middleware comes to once its call of next has come to `r`; no
\* middleware catches what its `await next()` throws
AfterNext(m, r) ==
  IF r.threw THEN Threw(r.error)
  ELSE CASE m.kind \in {"pass", "swap"} -> Returned(r.value)
         [] m.kind = "forget" -> Returned(Undefined)
         [] OTHER -> Threw(PlainError("middleware"))

\* a Procedure.call that does not look for a missing result
CallEndUnchecked(call) ==
  IF call.threw THEN [status |-> "threw", data |-> "none", error |-> call.error]
  ELSE IF call.value.def /\ ~call.value.ok
    THEN [status |-> "threw", data |-> "none", error |-> call.value.error]
  ELSE [status |-> "returned", data |-> call.value.data, error |-> NoError]

\* the end of Procedure.call, given what `await nextFns[0]()` came to
CallEnd(call) ==
  IF call.threw THEN [status |-> "threw", data |-> "none", error |-> call.error]
  ELSE LET result == call.value IN
    IF ~result.def
      THEN [status |-> "threw", data |-> "none",
            error |-> TRPCError("INTERNAL_SERVER_ERROR", "No result from middlewares", NoCause)]
    ELSE IF ~result.ok
      THEN [status |-> "threw", data |-> "none", error |-> result.error]
    ELSE [status |-> "returned", data |-> result.data, error |-> NoError]

\* a step has come to `r`: its nextFn hands the result to the step that called it
StepEnds(r) ==
  /\ ret' = NextFn(r)
  /\ idx' = idx - 1
  /\ procPc' = "return"

\* Procedure.inheritMiddlewares
InheritMiddlewares(ms) ==
  /\ procPc = "idle"
  /\ Len(ms) + Len(middlewares) <= MaxMiddlewares
  /\ middlewares' = InheritedList(ms, middlewares)
  /\ inherited' = Append(inherited, ms)
  /\ UNCHANGED <<procPc, callOpts, idx, ctxIn, rawOutput, ret, calls, outcome, pmsVars, obsVars>>

\* Procedure.call, up to nextFns[0]()
Call(rawInput) ==
  /\ procPc = "idle"
  /\ LET opts == [rawInput |-> rawInput, ctx |-> CallCtx] IN
       /\ callOpts' = opts
       /\ ctxIn' = <<NextFnCtx(opts, NoOpts)>>
  /\ idx' = 1
  /\ procPc' = "step"
  /\ UNCHANGED <<middlewares, rawOutput, ret, calls, inherited, outcome, pmsVars, obsVars>>

\* a configured middleware runs, up to its call of next or its throw
RunMiddleware ==
  /\ procPc = "step"
  /\ idx <= Len(middlewares)
  /\ LET m == middlewares[idx] IN
       /\ calls' = Append(calls, [fn |-> "middleware", mw |-> m])
       /\ IF CallsNext(m)
            THEN /\ ctxIn' = Append(ctxIn, NextFnCtx(callOpts, NextOpts(m)))
                 /\ idx' = idx + 1
                 /\ procPc' = "step"
                 /\ ret' = ret
            ELSE /\ StepEnds(Threw(PlainError("middleware")))
                 /\ ctxIn' = ctxIn
  /\ UNCHANGED <<middlewares, callOpts, rawOutput, inherited, outcome, pmsVars, obsVars>>

\* the wrapped resolver: await this.parseInput(opts.rawInput)
ParseInput ==
  /\ procPc = "step"
  /\ idx = ResolverAt
  /\ LET r == parseInput(callOpts.rawInput) IN
       IF r.threw
         THEN StepEnds(Threw(r.error))
         ELSE /\ procPc' = "resolver"
              /\ UNCHANGED <<idx, ret>>
  /\ UNCHANGED <<middlewares, callOpts, ctxIn, rawOutput, calls, inherited, outcome, pmsVars, obsVars>>

\* the wrapped resolver: await this.resolver({...opts, ctx, input})
Resolve(does) ==
  /\ procPc = "resolver"
  /\ calls' = Append(calls, ResolverCall)
  /\ IF does = "throws"
       THEN /\ StepEnds(Threw(PlainError("resolver")))
            /\ rawOutput' = rawOutput
       ELSE /\ rawOutput' = does
            /\ procPc' = "parseOutput"
            /\ UNCHANGED <<idx, ret>>
  /\ UNCHANGED <<middlewares, callOpts, ctxIn, inherited, outcome, pmsVars, obsVars>>

\* the wrapped resolver: await this.parseOutput(rawOutput), and its return
ParseOutput ==
  /\ procPc = "parseOutput"
  /\ LET r == parseOutput(rawOutput) IN
       IF r.threw
         THEN StepEnds(Threw(r.error))
         ELSE StepEnds(Returned(OkResult(r.value, ctxIn[idx])))
  /\ UNCHANGED <<middlewares, callOpts, ctxIn, rawOutput, calls, inherited, outcome, pmsVars, obsVars>>

\* next() returns into the middleware that called it, and the middleware ends
ReturnToMiddleware ==
  /\ procPc = "return"
  /\ idx >= 1
  /\ StepEnds(AfterNext(middlewares[idx], ret))
  /\ UNCHANGED <<middlewares, callOpts, ctxIn, rawOutput, calls, inherited, outcome, pmsVars, obsVars>>

\* nextFns[0]() has returned into Procedure.call
CallReturns ==
  /\ procPc = "return"
  /\ idx = 0
  /\ outcome' = CallEnd(ret)
  /\ procPc' = "done"
  /\ UNCHANGED <<middlewares, callOpts, idx, ctxIn, rawOutput, ret, calls, inherited, pmsVars, obsVars>>

MiddlewareLists ==
  {<<m>> : m \in Middlewares} \cup {<<m, n>> : m \in Middlewares, n \in Middlewares}

NextProcedure ==
  \/ \E ms \in MiddlewareLists : InheritMiddlewares(ms)
  \/ \E raw \in RawInputs : Call(raw)
  \/ RunMiddleware
  \/ ParseInput
  \/ \E does \in ResolverDoes : Resolve(does)
  \/ ParseOutput
  \/ ReturnToMiddleware
  \/ CallReturns

(***************************************************************************)
(* The postMessage transport handler: values on the wire                   *)
(***************************************************************************)
\* a JSON value, as far as the handler looks at it: its kind and its text
JS(t, v) == [t |-> t, v |-> v]
Undef == JS("undefined", "")
Null == JS("null", "")
Num(v) == JS("number", v)
Str(v) == JS("string", v)
Bool(v) == JS("boolean", v)

\* typeof
TypeOf(x) == IF x.t \in {"null", "array", "object"} THEN "object" ELSE x.t
\* Array.isArray
IsArray(x) == x.t = "array"
\* !x, for the values typeof calls an object
Falsy(x) == x.t \in {"null", "undefined"}
\* isNaN of a number; JSON.parse gives no NaN
IsNaN(x) == x.t = "number" /\ x.v = "NaN"

\* the params of an envelope: a value with, if it is an object, path and input
Params(t, path, input) == [t |-> t, v |-> "", path |-> path, input |-> input]
NoParams == Params("undefined", Undef, Undef)
\* a member of a payload: a value with, if it is an object, the envelope's fields
Raw(t, id, jsonrpc, method, params) ==
  [t |-> t, v |-> "", id |-> id, jsonrpc |-> jsonrpc, method |-> method, params |-> params]
NotAnObject(t) == Raw(t, Undef, Undef, Undef, NoParams)

\* function assertIsObject: TRUE when it throws
assertIsObject(obj) == TypeOf(obj) # "object" \/ IsArray(obj) \/ Falsy(obj)
\* an assertIsProcedureType that lets every method pass
assertIsProcedureTypeNever(obj) == FALSE

\* function assertIsProcedureType: TRUE when it throws
assertIsProcedureType(obj) ==
  obj # Str("query") /\ obj # Str("subscription") /\ obj # Str("mutation")
\* function assertIsRequestId: TRUE when it throws
assertIsRequestId(obj) ==
  obj # Null /\ TypeOf(obj) = "number" /\ IsNaN(obj) /\ TypeOf(obj) # "string"
\* function assertIsString: TRUE when it throws
assertIsString(obj) == TypeOf(obj) # "string"
\* function assertIsJSONRPC2OrUndefined: TRUE when it throws
assertIsJSONRPC2OrUndefined(obj) == TypeOf(obj) # "undefined" /\ obj # Str("2.0")

\* transformer.input.deserialize
Deserialize(rawInput) == [deserialized |-> rawInput]

\* a TRPCRequest
Request(id, method, path, input) ==
  [id |-> id, method |-> method, path |-> path, input |-> input]
NoRequest == Request(Undef, "none", "none", Deserialize(Undef))

\* function parseMessage: the request, or that it threw
parseMessage(obj) ==
  IF assertIsObject(obj) THEN [threw |-> TRUE, req |-> NoRequest]
  ELSE IF assertIsRequestId(obj.id) THEN [threw |-> TRUE, req |-> NoRequest]
  ELSE IF assertIsJSONRPC2OrUndefined(obj.jsonrpc) THEN [threw |-> TRUE, req |-> NoRequest]
  ELSE IF obj.method = Str("subscription.stop")
    THEN [threw |-> FALSE,
          req |-> Request(obj.id, "subscription.stop", "none", Deserialize(Undef))]
  ELSE IF assertIsProcedureType(obj.method) THEN [threw |-> TRUE, req |-> NoRequest]
  ELSE IF assertIsObject(obj.params) THEN [threw |-> TRUE, req |-> NoRequest]
  ELSE IF assertIsString(obj.params.path) THEN [threw |-> TRUE, req |-> NoRequest]
  ELSE [threw |-> FALSE,
        req |-> Request(obj.id, obj.method.v, obj.params.path.v,
                        Deserialize(obj.params.input))]

(***************************************************************************)
(* The payloads the handler is given: what JSON.parse made of a message.   *)
(***************************************************************************)
GoodParams == Params("object", Str("hello"), Str("in"))
Envelope(id, method) == Raw("object", id, Undef, Str(method), GoodParams)

\* members that pass parseMessage
WellFormed ==
  { Raw("object", Num("1"), Str("2.0"), Str("query"), GoodParams),
    Envelope(Num("1"), "subscription"),
    Envelope(Str("a"), "subscription"),
    Raw("object", Num("1"), Undef, Str("subscription.stop"), NoParams),
    Envelope(Null, "query"),
    Envelope(Undef, "mutation"),
    Raw("object", Bool("true"), Undef, Str("subscription.stop"), NoParams) }

\* members that parseMessage throws on
Malformed ==
  { NotAnObject("string"),
    NotAnObject("null"),
    NotAnObject("array"),
    Raw("object", Num("1"), Str("1.0"), Str("query"), GoodParams),
    Raw("object", Num("1"), Undef, Str("bogus"), GoodParams),
    Raw("object", Num("1"), Undef, Undef, GoodParams),
    Raw("object", Num("1"), Undef, Str("query"), NoParams),
    Raw("object", Num("1"), Undef, Str("mutation"), Params("string", Undef, Undef)),
    Raw("object", Str("a"), Undef, Str("subscription"), Params("object", Undef, Str("in"))),
    Raw("object", Str("a"), Undef, Str("query"), Params("object", Num("5"), Str("in"))),
    Raw("object", Str("a"), Str("1.0"), Str("subscription.stop"), NoParams) }

\* the members batches are made of
BatchMembers ==
  { Raw("object", Num("1"), Str("2.0"), Str("query"), GoodParams),
    Envelope(Num("1"), "subscription"),
    Envelope(Null, "query"),
    Raw("object", Num("1"), Undef, Str("bogus"), GoodParams) }

\* a payload: text JSON.parse throws on, one value, or an array of values
Payload(json, array, members) == [json |-> json, array |-> array, members |-> members]
Payloads ==
  {Payload(FALSE, FALSE, <<>>), Payload(TRUE, TRUE, <<>>)}
    \cup {Payload(TRUE, FALSE, <<e>>) : e \in WellFormed \cup Malformed}
    \cup {Payload(TRUE, TRUE, <<e>>) : e \in BatchMembers}
    \cup {Payload(TRUE, TRUE, <<e, f>>) : e \in BatchMembers, f \in BatchMembers}

(***************************************************************************)
(* The postMessage transport handler: its state and its operations         *)
(***************************************************************************)
\* a Map, as the sequence of its entries in insertion order
MapHas(m, k) == \E i \in 1..Len(m) : m[i].key = k
MapGet(m, k) == m[CHOOSE i \in 1..Len(m) : m[i].key = k].sub
MapSet(m, k, s) ==
  IF MapHas(m, k)
    THEN [i \in 1..Len(m) |-> IF m[i].key = k THEN [key |-> k, sub |-> s] ELSE m[i]]
    ELSE Append(m, [key |-> k, sub |-> s])
MapDelete(m, k) == SelectSeq(m, LAMBDA e : e.key # k)

\* a response envelope
DataEnvelope(id, data) ==
  [id |-> id, kind |-> "data", data |-> data, code |-> "none", message |-> "none"]
ResultEnvelope(id, type) ==
  [id |-> id, kind |-> type, data |-> "none", code |-> "none", message |-> "none"]
ErrorEnvelope(id, shape) ==
  [id |-> id, kind |-> "error", data |-> "none", code |-> shape.code,
   message |-> shape.message]

\* router.getErrorShape
getErrorShape(error) == [code |-> error.code, message |-> error.message]

\* the Subscription object of a task: not made yet, or as the resolver made it
NoSubscription ==
  [made |-> FALSE, started |-> FALSE, isDestroyed |-> FALSE, listening |-> FALSE,
   emitted |-> 0]
NewSubscription == [NoSubscription EXCEPT !.made = TRUE]

\* a call of handleRequest: the message it comes from, the request, its
\* position, and what `await callProcedure(...)` came to
Task(msg, req, pc) ==
  [msg |-> msg, id |-> req.id, method |-> req.method, path |-> req.path,
   input |-> req.input, pc |-> pc, result |-> "none"]

\* the state the handler's operations work on
Handler ==
  [cs |-> clientSubscriptions, subs |-> subs, sent |-> sent, listenerSent |-> listenerSent]

\* function respond, called by the listener (t = 0) or by task t and its subscription
respond(h, envelope, t) ==
  IF t = 0 THEN [h EXCEPT !.listenerSent = Append(@, envelope)]
  ELSE [h EXCEPT !.sent[t] = Append(@, envelope)]

\* the listener of 'data' that task t attaches
OnData(h, t) == respond(h, DataEnvelope(tasks[t].id, "event"), t)

\* the listener of 'error' that task t attaches
OnError(h, t) ==
  respond(h, ErrorEnvelope(tasks[t].id,
                           getErrorShape(getErrorFromUnknown(PlainError("stream")))), t)

\* the listener of 'destroy' that task t attaches
OnDestroy(h, t) == respond(h, ResultEnvelope(tasks[t].id, "stopped"), t)

\* Subscription.emitOutput, of the subscription of task s
EmitData(h, s) ==
  LET h1 == [h EXCEPT !.subs[s].emitted = @ + 1] IN
  IF h.subs[s].listening THEN OnData(h1, s) ELSE h1

\* Subscription.emitError
EmitError(h, s) ==
  LET h1 == [h EXCEPT !.subs[s].emitted = @ + 1] IN
  IF h.subs[s].listening THEN OnError(h1, s) ELSE h1

\* Subscription.destroy
Destroy(h, s) ==
  IF h.subs[s].isDestroyed THEN h
  ELSE LET h1 == [h EXCEPT !.subs[s].isDestroyed = TRUE]
           h2 == IF h.subs[s].listening THEN OnDestroy(h1, s) ELSE h1
       IN [h2 EXCEPT !.subs[s].listening = FALSE]

\* Subscription.start, with the data its callback emits before it returns
Start(h, s, sync) ==
  LET h1 == [h EXCEPT !.subs[s].started = TRUE] IN
  IF sync THEN EmitData(h1, s) ELSE h1

\* clientSubscriptions.set(id, sub)
Register(h, id, s) == [h EXCEPT !.cs = MapSet(@, id, s)]

\* sub.on('data', ...), sub.on('error', ...), sub.on('destroy', ...)
AttachHandlers(h, s) == [h EXCEPT !.subs[s].listening = TRUE]

RECURSIVE TotalEmitted(_)
TotalEmitted(ss) == IF ss = <<>> THEN 0 ELSE Head(ss).emitted + TotalEmitted(Tail(ss))

\* what callProcedure can come to for a procedure type: a value, a
\* Subscription, or a thrown error
callProcedure(type) ==
  IF type = "query" THEN {"value", "error"}
  ELSE IF type = "mutation" THEN {"value", "error"}
  ELSE IF type = "subscription" THEN {"subscription", "error"}
  ELSE {"error"}

\* a duplicate check that finds no id tracked
IsDuplicateNever(h, id) == FALSE

\* the id of a subscription request is already tracked
IsDuplicate(h, id) == MapHas(h.cs, id)

\* handleRequest rejects the id before anything else
IdRejected(id) == id = Null

\* a handleRequest that starts the subscription before it acknowledges it
AcceptStartsFirst(h, id, t, sync) ==
  respond(Start(AttachHandlers(Register(h, id, t), t), t, sync),
          ResultEnvelope(id, "started"), t)

\* handleRequest, from clientSubscriptions.set to sub.start()
AcceptSubscription(h, id, t, sync) ==
  Start(respond(AttachHandlers(Register(h, id, t), t), ResultEnvelope(id, "started"), t),
        t, sync)

\* a subscription.stop that destroys the subscription and keeps its entry
StopKeepsEntry(h, id) ==
  IF MapHas(h.cs, id) THEN Destroy(h, MapGet(h.cs, id)) ELSE h

\* handleRequest for subscription.stop
StopSubscription(h, id) ==
  LET h1 == IF MapHas(h.cs, id) THEN Destroy(h, MapGet(h.cs, id)) ELSE h IN
  [h1 EXCEPT !.cs = MapDelete(@, id)]

\* a catch of handleRequest that posts nothing
CatchProcedureErrorSilent(h, id, error, t) == h

\* the catch of handleRequest
CatchProcedureError(h, id, error, t) ==
  respond(h, ErrorEnvelope(id, getErrorShape(getErrorFromUnknown(error))), t)

\* the state a message is handled in: the handler's, the tasks, the calls of
\* callProcedure, and whether a call of handleRequest has thrown
Handling(h, ts, ds, rejected) == [h |-> h, tasks |-> ts, dispatched |-> ds, rejected |-> rejected]

\* a new task: its Subscription is not made and it has sent nothing
WithTask(st, task) ==
  [st EXCEPT !.tasks = Append(@, task),
             !.h.subs = Append(@, NoSubscription),
             !.h.sent = Append(@, <<>>)]

\* handleRequest(req), up to its first await
handleRequest(st, req, msg) ==
  LET t == Len(st.tasks) + 1 IN
  IF IdRejected(req.id)
    THEN [WithTask(st, Task(msg, req, "threw")) EXCEPT !.rejected = TRUE]
  ELSE IF req.method = "subscription.stop"
    THEN [WithTask(st, Task(msg, req, "done")) EXCEPT !.h = StopSubscription(@, req.id)]
  ELSE [WithTask(st, Task(msg, req, "awaitCall")) EXCEPT
          !.dispatched = Append(@, [task |-> t, type |-> req.method, path |-> req.path,
                                    input |-> req.input])]

RECURSIVE HandleAll(_, _, _)
\* msgs.map(handleRequest)
HandleAll(st, reqs, msg) ==
  IF reqs = <<>> THEN st
  ELSE HandleAll(handleRequest(st, Head(reqs), msg), Tail(reqs), msg)

\* the envelopes of a payload; one that holds none counts as one
Weight(p) == IF p.members = <<>> THEN 1 ELSE Len(p.members)

\* the envelope of the listener's catch
ParseErrorEnvelope ==
  ErrorEnvelope(Null, getErrorShape(TRPCError("PARSE_ERROR", "none", "cause")))

\* a listener that hands the members to handleRequest unvalidated
ParsesJsonOnly(p) == p.json

\* the payload passes JSON.parse and every member passes parseMessage
Parses(p) == p.json /\ \A i \in 1..Len(p.members) : ~parseMessage(p.members[i]).threw

\* what the listener does with a payload before its await
Listener(p) ==
  LET st0 == Handling(Handler, tasks, dispatched, FALSE) IN
  IF Parses(p)
    THEN HandleAll(st0, [i \in 1..Len(p.members) |-> parseMessage(p.members[i]).req],
                   msgCount + 1)
    ELSE [st0 EXCEPT !.h = respond(@, ParseErrorEnvelope, 0)]

SetHandler(h) ==
  /\ clientSubscriptions' = h.cs
  /\ subs' = h.subs
  /\ sent' = h.sent
  /\ listenerSent' = h.listenerSent

\* the 'message' listener, up to `await Promise.all(promises)`
OnMessage(p) ==
  /\ received + Weight(p) <= MaxEnvelopes
  /\ LET st == Listener(p) IN
       /\ SetHandler(st.h)
       /\ tasks' = st.tasks
       /\ dispatched' = st.dispatched
       /\ pendingCatch' = pendingCatch + (IF st.rejected THEN 1 ELSE 0)
  /\ received' = received + Weight(p)
  /\ msgCount' = msgCount + 1
  /\ UNCHANGED <<procVars, obsVars>>

\* Promise.all has rejected: the listener's catch
MessageCatch ==
  /\ pendingCatch > 0
  /\ pendingCatch' = pendingCatch - 1
  /\ SetHandler(respond(Handler, ParseErrorEnvelope, 0))
  /\ UNCHANGED <<tasks, dispatched, received, msgCount, procVars, obsVars>>

\* handleRequest after `await callProcedure(...)`, up to `await sub.start()`
\* or its end.  Nothing follows `await sub.start()` in handleRequest: the task
\* of an accepted subscription stays at "awaitStart"
CallSettles(t, result, sync) ==
  /\ t \in 1..Len(tasks)
  /\ tasks[t].pc = "awaitCall"
  /\ result \in callProcedure(tasks[t].method)
  /\ LET id == tasks[t].id
         made == [Handler EXCEPT !.subs[t] = NewSubscription]
     IN
       CASE result = "value" ->
              /\ ~sync
              /\ SetHandler(respond(Handler, DataEnvelope(id, "result"), t))
              /\ tasks' = [tasks EXCEPT ![t].pc = "done", ![t].result = result]
         [] result = "error" ->
              /\ ~sync
              /\ SetHandler(CatchProcedureError(Handler, id, PlainError("procedure"), t))
              /\ tasks' = [tasks EXCEPT ![t].pc = "done", ![t].result = result]
         [] OTHER ->
              IF IsDuplicate(made, id)
                THEN /\ ~sync
                     /\ SetHandler(CatchProcedureError(Destroy(made, t), id,
                                     TRPCError("BAD_REQUEST", "Duplicate id", NoCause), t))
                     /\ tasks' = [tasks EXCEPT ![t].pc = "done", ![t].result = result]
                ELSE /\ sync => TotalEmitted(subs) < MaxEvents
                     /\ SetHandler(AcceptSubscription(made, id, t, sync))
                     /\ tasks' = [tasks EXCEPT ![t].pc = "awaitStart", ![t].result = result]
  /\ UNCHANGED <<dispatched, received, msgCount, pendingCatch, procVars, obsVars>>

\* the stream of a started subscription emits data
SubscriptionEmitsData(s) ==
  /\ s \in 1..Len(subs)
  /\ subs[s].started /\ ~subs[s].isDestroyed
  /\ TotalEmitted(subs) < MaxEvents
  /\ SetHandler(EmitData(Handler, s))
  /\ UNCHANGED <<tasks, dispatched, received, msgCount, pendingCatch, procVars, obsVars>>

\* the stream of a started subscription emits an error
SubscriptionEmitsError(s) ==
  /\ s \in 1..Len(subs)
  /\ subs[s].started /\ ~subs[s].isDestroyed
  /\ TotalEmitted(subs) < MaxEvents
  /\ SetHandler(EmitError(Handler, s))
  /\ UNCHANGED <<tasks, dispatched, received, msgCount, pendingCatch, procVars, obsVars>>

\* the server destroys a started subscription
ServerDestroys(s) ==
  /\ s \in 1..Len(subs)
  /\ subs[s].started /\ ~subs[s].isDestroyed
  /\ SetHandler(Destroy(Handler, s))
  /\ UNCHANGED <<tasks, dispatched, received, msgCount, pendingCatch, procVars, obsVars>>

\* a loop over clientSubscriptions.values() that ends after the first entry
DestroyFirst(h, entries) ==
  IF entries = <<>> THEN h ELSE Destroy(h, Head(entries).sub)

RECURSIVE DestroyAll(_, _)
\* for (const sub of clientSubscriptions.values()) sub.destroy()
DestroyAll(h, entries) ==
  IF entries = <<>> THEN h ELSE DestroyAll(Destroy(h, Head(entries).sub), Tail(entries))

\* close
Close ==
  /\ clientSubscriptions # <<>>
  /\ SetHandler([DestroyAll(Handler, clientSubscriptions) EXCEPT !.cs = <<>>])
  /\ UNCHANGED <<tasks, dispatched, received, msgCount, pendingCatch, procVars, obsVars>>

\* applyPMSHandler: no subscription is tracked and nothing was sent
InitPMS ==
  /\ clientSubscriptions = <<>>
  /\ subs = <<>>
  /\ tasks = <<>>
  /\ sent = <<>>
  /\ listenerSent = <<>>
  /\ dispatched = <<>>
  /\ received = 0
  /\ msgCount = 0
  /\ pendingCatch = 0

NextPMS ==
  \/ \E p \in Payloads : OnMessage(p)
  \/ MessageCatch
  \/ \E t \in 1..Len(tasks), result \in {"value", "subscription", "error"}, sync \in BOOLEAN :
       CallSettles(t, result, sync)
  \/ \E s \in 1..Len(subs) : SubscriptionEmitsData(s)
  \/ \E s \in 1..Len(subs) : SubscriptionEmitsError(s)
  \/ \E s \in 1..Len(subs) : ServerDestroys(s)
  \/ Close

(***************************************************************************)
(* observable.subscribe                                                    *)
(***************************************************************************)
\* what a producer can return: a cleanup function, an object with an
\* unsubscribe method, or nothing
Teardowns == {"function", "unsubscribable"}
TeardownLogic == Teardowns \cup {"void"}
Signals == {"next", "error", "complete"}

\* the state the operations of one subscription work on
Obs ==
  [teardownRef |-> teardownRef, isDone |-> isDone, unsubscribed |-> unsubscribed,
   teardownImmediately |-> teardownImmediately, teardownRuns |-> teardownRuns,
   observed |-> observed]

RECURSIVE unsubscribe(_, _), Teardown(_, _)

\* an unsubscribe that does not look at `unsubscribed`
unsubscribeUnguarded(o, depth) ==
  IF o.teardownRef = "null" THEN [o EXCEPT !.teardownImmediately = TRUE]
  ELSE Teardown([o EXCEPT !.unsubscribed = TRUE], depth)

\* function unsubscribe; depth is 0 for a call from outside the teardown
unsubscribe(o, depth) ==
  IF o.teardownRef = "null" THEN [o EXCEPT !.teardownImmediately = TRUE]
  ELSE IF o.unsubscribed THEN o
  ELSE Teardown([o EXCEPT !.unsubscribed = TRUE], depth)

\* a teardown call that is left out
TeardownSkipped(o, depth) == o

\* teardownRef() or teardownRef.unsubscribe(): the producer's teardown runs,
\* and calls unsubscribe itself if the producer is written that way
Teardown(o, depth) ==
  IF o.teardownRef \in Teardowns
    THEN LET ran == [o EXCEPT !.teardownRuns = @ + 1] IN
         IF producer.reenters /\ depth < MaxReentry THEN unsubscribe(ran, depth + 1) ELSE ran
    ELSE o

\* next of the observer given to the producer
next(o) == IF o.isDone THEN o ELSE [o EXCEPT !.observed = Append(@, "next")]

\* an error that does not latch isDone
errorUnlatched(o) == unsubscribe([o EXCEPT !.observed = Append(@, "error")], 0)

\* error of the observer given to the producer
error(o) ==
  IF o.isDone THEN o
  ELSE unsubscribe([o EXCEPT !.isDone = TRUE, !.observed = Append(@, "error")], 0)

\* complete of the observer given to the producer
complete(o) ==
  IF o.isDone THEN o
  ELSE unsubscribe([o EXCEPT !.isDone = TRUE, !.observed = Append(@, "complete")], 0)

\* a subscribe that forgets the unsubscribe it was asked for too early
subscribeReturnsUndeferred(o, ref) == [o EXCEPT !.teardownRef = ref]

\* the producer function has returned `ref`: teardownRef is set and the
\* deferred unsubscribe runs
subscribeReturns(o, ref) ==
  LET o1 == [o EXCEPT !.teardownRef = ref] IN
  IF o1.teardownImmediately THEN unsubscribe(o1, 0) ELSE o1

SetObs(o) ==
  /\ teardownRef' = o.teardownRef
  /\ isDone' = o.isDone
  /\ unsubscribed' = o.unsubscribed
  /\ teardownImmediately' = o.teardownImmediately
  /\ teardownRuns' = o.teardownRuns
  /\ observed' = o.observed

ProducerSignals == Cardinality({i \in 1..Len(history) : history[i] \in Signals})
UnsubscribeCalls == Cardinality({i \in 1..Len(history) : history[i] = "unsubscribe"})

\* self.subscribe(observer), up to the call of the producer function
Subscribe(ref, reenters) ==
  /\ obsPc = "idle"
  /\ obsPc' = "producer"
  /\ producer' = [teardown |-> ref, reenters |-> reenters]
  /\ UNCHANGED <<teardownRef, isDone, unsubscribed, teardownImmediately, teardownRuns,
                 observed, history, procVars, pmsVars>>

\* the producer calls next, error or complete, inside the producer function
\* or later
ProducerSignal(sig) ==
  /\ obsPc \in {"producer", "active"}
  /\ ProducerSignals < MaxSignals
  /\ SetObs(CASE sig = "next" -> next(Obs)
              [] sig = "error" -> error(Obs)
              [] OTHER -> complete(Obs))
  /\ history' = Append(history, sig)
  /\ UNCHANGED <<obsPc, producer, procVars, pmsVars>>

\* the producer function returns and subscribe returns {unsubscribe}
ProducerReturns ==
  /\ obsPc = "producer"
  /\ obsPc' = "active"
  /\ SetObs(subscribeReturns(Obs, producer.teardown))
  /\ UNCHANGED <<producer, history, procVars, pmsVars>>

\* the consumer calls unsubscribe of the object subscribe returned
ConsumerUnsubscribe ==
  /\ obsPc = "active"
  /\ UnsubscribeCalls < MaxUnsubscribes
  /\ SetObs(unsubscribe(Obs, 0))
  /\ history' = Append(history, "unsubscribe")
  /\ UNCHANGED <<obsPc, producer, procVars, pmsVars>>

\* subscribe has not been called
InitObservable ==
  /\ teardownRef = "null"
  /\ isDone = FALSE
  /\ unsubscribed = FALSE
  /\ teardownImmediately = FALSE
  /\ obsPc = "idle"
  /\ producer = [teardown |-> "void", reenters |-> FALSE]
  /\ teardownRuns = 0
  /\ observed = <<>>
  /\ history = <<>>

NextObservable ==
  \/ \E ref \in TeardownLogic, reenters \in BOOLEAN : Subscribe(ref, reenters)
  \/ \E sig \in Signals : ProducerSignal(sig)
  \/ ProducerReturns
  \/ ConsumerUnsubscribe

Init == InitProcedure /\ InitPMS /\ InitObservable

SpecProcedure == Init /\ [][NextProcedure]_vars

SpecPMS == Init /\ [][NextPMS]_vars

SpecObservable == Init /\ [][NextObservable]_vars

(***************************************************************************)
(* Claims about Procedure.call                                             *)
(***************************************************************************)
RECURSIVE Flatten(_)
\* the middlewares in configured order: the lists of later inheritMiddlewares
\* calls come before those of earlier ones
Flatten(lists) ==
  IF lists = <<>> THEN <<>> ELSE Flatten(Tail(lists)) \o Head(lists)

ConfiguredOrder == Flatten(inherited)

InputPasses == ~parseInputFn(callOpts.rawInput).threw
AllWellBehaved == \A i \in 1..Len(middlewares) : WellBehaved(middlewares[i])
IsPrefix(a, b) == Len(a) <= Len(b) /\ a = SubSeq(b, 1, Len(a))
ResolverCalls == Cardinality({i \in 1..Len(calls) : calls[i].fn = "resolver"})

\* the invocations C1 expects of a whole call
ExpectedCalls ==
  [i \in 1..Len(ConfiguredOrder) |-> [fn |-> "middleware", mw |-> ConfiguredOrder[i]]]
    \o <<ResolverCall>>

\* C1: in a call whose raw input passes the input parser and whose middlewares
\* each call next once and return its result, the invocations are at every
\* moment a prefix of: every configured middleware once, in configured order
\* (those given to inheritMiddlewares last come first), then the resolver
\* once; and when the call has ended they are exactly that.
C1_MiddlewaresInOrderThenResolver ==
  (procPc # "idle" /\ InputPasses /\ AllWellBehaved) =>
     /\ IsPrefix(calls, ExpectedCalls)
     /\ procPc = "done" => calls = ExpectedCalls

C1_Witness ==
  /\ procPc = "done" /\ InputPasses /\ AllWellBehaved
  /\ Len(inherited) >= 2
  /\ middlewares[1] # middlewares[Len(middlewares)]
  /\ calls = ExpectedCalls

\* C2: the step after a middleware that calls next() without an argument is
\* given the ctx that middleware was given itself; the step after a middleware
\* that calls next({ctx: c}) is given c.
C2_NextKeepsReceivedContext ==
  \A i \in 2..Len(ctxIn) :
    LET m == middlewares[i - 1] IN
      ctxIn[i] = IF m.kind = "swap" THEN m.ctx ELSE ctxIn[i - 1]

\* C3: in a call whose raw input the input parser rejects, the resolver is
\* never invoked, and when every middleware returns the result of next
\* unchanged the call throws a BAD_REQUEST error whose cause is the parser's
\* error.
C3_RejectedInputIsBadRequest ==
  (procPc # "idle" /\ ~InputPasses) =>
     /\ ResolverCalls = 0
     /\ (procPc = "done" /\ AllWellBehaved) =>
          /\ outcome.status = "threw"
          /\ outcome.error.code = "BAD_REQUEST"
          /\ outcome.error.cause = parseInputFn(callOpts.rawInput).error.message

C3_Witness ==
  /\ procPc = "done" /\ ~InputPasses /\ AllWellBehaved
  /\ Len(middlewares) >= 1
  /\ outcome.error.code = "BAD_REQUEST"

OutputRejected == rawOutput # "none" /\ parseOutputFn(rawOutput).threw
FailedOutputValidation ==
  /\ outcome.status = "threw"
  /\ outcome.error.code = "INTERNAL_SERVER_ERROR"
  /\ outcome.error.message = "Output validation failed"
  /\ outcome.error.code # "BAD_REQUEST"

\* C4 as claimed: every call in which the resolver returns a value the output
\* parser rejects throws INTERNAL_SERVER_ERROR 'Output validation failed'.
C4_Original ==
  /\ (procPc = "done" /\ OutputRejected) => FailedOutputValidation
  /\ OutputRejected => ResolverCalls = 1

\* C4: in a call in which the resolver returns a value the output parser
\* rejects and every middleware returns the result of next unchanged, the
\* call throws INTERNAL_SERVER_ERROR 'Output validation failed', not
\* BAD_REQUEST; and an output validation failure is only ever produced after
\* the resolver was invoked.
C4_RejectedOutputIsInternalError ==
  /\ (procPc = "done" /\ OutputRejected /\ AllWellBehaved) => FailedOutputValidation
  /\ OutputRejected => ResolverCalls = 1
  /\ (ret.value.error.cause = "outputParser" \/ outcome.error.cause = "outputParser") =>
       (ResolverCalls = 1 /\ Len(calls) = ResolverAt)

C4_Witness ==
  /\ procPc = "done" /\ OutputRejected /\ AllWellBehaved
  /\ Len(middlewares) >= 1
  /\ FailedOutputValidation /\ ResolverCalls = 1

(***************************************************************************)
(* Claims about the transport handler                                      *)
(***************************************************************************)
Tasks == 1..Len(tasks)
Kinds(t) == [i \in 1..Len(sent[t]) |-> sent[t][i].kind]
CountKind(t, kind) == Cardinality({i \in 1..Len(sent[t]) : sent[t][i].kind = kind})
Dispatches(t) == Cardinality({i \in 1..Len(dispatched) : dispatched[i].task = t})
Tracked(id) == MapHas(clientSubscriptions, id)
DuplicateEnvelope(id) ==
  [id |-> id, kind |-> "error", data |-> "none", code |-> "BAD_REQUEST",
   message |-> "Duplicate id"]

\* the procedure of task t has returned a Subscription in this step
SubscriptionReturned(t) ==
  /\ t \in Tasks /\ tasks[t].pc = "awaitCall"
  /\ tasks'[t].pc # "awaitCall" /\ tasks'[t].result = "subscription"

\* C5: at every moment no id has two entries in clientSubscriptions, every
\* subscription whose handlers are attached is the one tracked under its id
\* (so no two of them share an id); and in every step in which a procedure
\* returns a Subscription for an id that is already tracked, the request is
\* answered with the BAD_REQUEST 'Duplicate id' envelope alone, the new
\* Subscription ends destroyed, never started and without handlers,
\* clientSubscriptions is unchanged, and every other subscription and what was
\* posted for it is unchanged.
C5_DuplicateIdRejected ==
  /\ [](/\ \A i, j \in 1..Len(clientSubscriptions) :
             clientSubscriptions[i].key = clientSubscriptions[j].key => i = j
        /\ \A t \in Tasks :
             subs[t].listening =>
               /\ Tracked(tasks[t].id)
               /\ MapGet(clientSubscriptions, tasks[t].id) = t)
  /\ [][\A t \in Tasks :
          (SubscriptionReturned(t) /\ Tracked(tasks[t].id)) =>
             /\ clientSubscriptions' = clientSubscriptions
             /\ sent'[t] = <<DuplicateEnvelope(tasks[t].id)>>
             /\ subs'[t].isDestroyed /\ ~subs'[t].started /\ ~subs'[t].listening
             /\ \A u \in Tasks \ {t} : subs'[u] = subs[u] /\ sent'[u] = sent[u]]_vars

\* two subscription requests with one id in one batch: the second is rejected
\* and the first stays tracked
C5_Witness ==
  \E t, u \in Tasks :
    /\ t # u /\ tasks[t].msg = tasks[u].msg /\ tasks[t].id = tasks[u].id
    /\ sent[u] = <<DuplicateEnvelope(tasks[u].id)>>
    /\ subs[u].made /\ subs[u].isDestroyed /\ ~subs[u].started
    /\ subs[t].listening /\ ~subs[t].isDestroyed
    /\ MapGet(clientSubscriptions, tasks[t].id) = t

Methods == {Str("query"), Str("mutation"), Str("subscription"), Str("subscription.stop")}
StructurallyInvalid(e) ==
  \/ e.t # "object"
  \/ (e.jsonrpc # Undef /\ e.jsonrpc # Str("2.0"))
  \/ e.method \notin Methods
  \/ /\ e.method # Str("subscription.stop")
     /\ (e.params.t # "object" \/ e.params.path.t # "string")
SomeInvalid(p) == \E i \in 1..Len(p.members) : StructurallyInvalid(p.members[i])
\* the members of a payload that ask for a procedure and have an id other than null
Procedures(p) ==
  {i \in 1..Len(p.members) :
     /\ ~StructurallyInvalid(p.members[i])
     /\ p.members[i].method # Str("subscription.stop")
     /\ p.members[i].id # Null}
NewDispatches == Len(dispatched') - Len(dispatched)

\* C7 as claimed: the valid members of a batch are dispatched whether or not
\* another member of the batch fails envelope validation.
C7_Original ==
  [][\A p \in Payloads :
       (OnMessage(p) /\ p.json /\ p.array) => NewDispatches = Cardinality(Procedures(p))]_vars

\* C7: the members of a batch are all parsed before any is dispatched.  When
\* every member passes envelope validation, each member is handed to
\* handleRequest and each that asks for a procedure with an id other than null
\* is dispatched, whatever handleRequest does with the others; when a member
\* fails envelope validation, no member of the batch is handed to
\* handleRequest, dispatched or answered: the PARSE_ERROR envelope is all
\* that is posted.
C7_BatchParsedThenDispatched ==
  [][\A p \in Payloads :
       (OnMessage(p) /\ p.json /\ p.array) =>
          IF SomeInvalid(p)
            THEN /\ tasks' = tasks /\ dispatched' = dispatched /\ sent' = sent
                 /\ clientSubscriptions' = clientSubscriptions
                 /\ listenerSent' = Append(listenerSent, ParseErrorEnvelope)
            ELSE /\ Len(tasks') = Len(tasks) + Len(p.members)
                 /\ NewDispatches = Cardinality(Procedures(p))
                 /\ listenerSent' = listenerSent]_vars

\* a batch of a request with id null and a query: handleRequest has thrown
\* for the first, the second was dispatched and answered
C7_Witness ==
  \E t, u \in Tasks :
    /\ t # u /\ tasks[t].msg = tasks[u].msg
    /\ tasks[t].pc = "threw"
    /\ tasks[u].pc = "done" /\ Dispatches(u) = 1 /\ Kinds(u) = <<"data">>

\* C8: in every step in which the listener is given a payload with an
\* envelope that fails structural validation, no call of handleRequest or
\* callProcedure is made, clientSubscriptions and what was posted for the
\* requests are unchanged, and one envelope is posted, with id null and code
\* PARSE_ERROR.
C8_MalformedIsParseError ==
  [][\A p \in Payloads :
       (OnMessage(p) /\ p.json /\ SomeInvalid(p)) =>
          /\ tasks' = tasks /\ dispatched' = dispatched /\ sent' = sent
          /\ clientSubscriptions' = clientSubscriptions
          /\ Len(listenerSent') = Len(listenerSent) + 1
          /\ listenerSent'[Len(listenerSent')].id = Null
          /\ listenerSent'[Len(listenerSent')].kind = "error"
          /\ listenerSent'[Len(listenerSent')].code = "PARSE_ERROR"]_vars

\* one message of two envelopes was answered by the listener's catch at once
C8_Witness ==
  /\ msgCount = 1 /\ received = 2
  /\ tasks = <<>> /\ dispatched = <<>> /\ pendingCatch = 0
  /\ Len(listenerSent) = 1
  /\ listenerSent[1].id = Null /\ listenerSent[1].code = "PARSE_ERROR"

\* C9: every request that is dispatched to callProcedure or acted on as
\* subscription.stop, and every key of clientSubscriptions, has an id that is
\* a number or a string.
C9_LiveIdIsNumberOrString ==
  /\ \A t \in Tasks : tasks[t].pc # "threw" => tasks[t].id.t \in {"number", "string"}
  /\ \A i \in 1..Len(dispatched) : tasks[dispatched[i].task].id.t \in {"number", "string"}
  /\ \A i \in 1..Len(clientSubscriptions) :
       clientSubscriptions[i].key.t \in {"number", "string"}

\* the subscription of task t is started in this step
Starts(t) == t \in Tasks /\ ~subs[t].started /\ subs'[t].started

\* C10: for every accepted subscription request the 'started' envelope is
\* the first envelope posted for it and is posted once, every data and error
\* event its stream has emitted has been posted (none was emitted before the
\* handlers were attached), and in the step that starts it the subscription
\* is tracked under the request's id.
C10_StartedBeforeStart ==
  /\ [](\A t \in Tasks :
          subs[t].started =>
            /\ sent[t] # <<>> /\ sent[t][1] = ResultEnvelope(tasks[t].id, "started")
            /\ CountKind(t, "started") = 1
            /\ subs[t].emitted = CountKind(t, "data") + CountKind(t, "error"))
  /\ [][\A t \in Tasks :
          Starts(t) => /\ MapHas(clientSubscriptions', tasks[t].id)
                       /\ MapGet(clientSubscriptions', tasks[t].id) = t]_vars

\* a subscription whose callback emits data inside start(): 'started' comes first
C10_Witness ==
  \E t \in Tasks :
    /\ subs[t].started /\ subs[t].emitted = 2
    /\ Len(sent[t]) >= 3
    /\ SubSeq(Kinds(t), 1, 3) = <<"started", "data", "data">>

\* the envelope the 'error' listener posts for a stream error of task t
StreamErrorEnvelope(t) ==
  ErrorEnvelope(tasks[t].id, getErrorShape(getErrorFromUnknown(PlainError("stream"))))

\* C11: once the error envelope of a stream error has been posted for a
\* subscription, no data envelope with its id is posted after it.
C11_NoDataAfterStreamError ==
  \A t \in Tasks :
    \A i, j \in 1..Len(sent[t]) :
      (i < j /\ sent[t][i] = StreamErrorEnvelope(t)) => sent[t][j].kind # "data"

\* the ids tracked in clientSubscriptions whose subscription is not live
\* any more: it was destroyed, or its stream has emitted 'error'
Live(t) == subs[t].made /\ ~subs[t].isDestroyed /\ CountKind(t, "error") = 0

\* C18: every entry of clientSubscriptions holds a live subscription (one
\* that was neither destroyed nor has emitted 'error'), and a subscription
\* request is rejected as duplicate only while a live subscription holds
\* its id.
C18_TrackedOnlyWhileLive ==
  /\ \A i \in 1..Len(clientSubscriptions) : Live(clientSubscriptions[i].sub)
  /\ \A t \in Tasks :
       sent[t] = <<DuplicateEnvelope(tasks[t].id)>> =>
         \E u \in Tasks : u # t /\ tasks[u].id = tasks[t].id /\ Live(u)

\* the payloads that are one subscription.stop envelope
StopPayloads ==
  {p \in Payloads :
     /\ p.json /\ ~p.array /\ Len(p.members) = 1
     /\ ~StructurallyInvalid(p.members[1])
     /\ p.members[1].method = Str("subscription.stop")}

\* C15: in every step in which the listener is given a subscription.stop
\* envelope, no envelope is posted for the stop itself, nothing is dispatched
\* and the id is not tracked afterwards; when the id was tracked, its
\* subscription ends destroyed, its entry is the only one removed and every
\* other subscription and what was posted for it is unchanged; when the id
\* was not tracked, clientSubscriptions, every subscription and everything
\* posted are unchanged.
C15_StopDestroysOrIsNoOp ==
  [][\A p \in StopPayloads :
       OnMessage(p) =>
         LET id == p.members[1].id IN
           /\ ~MapHas(clientSubscriptions', id)
           /\ sent'[Len(tasks')] = <<>>
           /\ listenerSent' = listenerSent /\ dispatched' = dispatched
           /\ pendingCatch' = pendingCatch
           /\ IF Tracked(id)
                THEN LET s == MapGet(clientSubscriptions, id) IN
                       /\ clientSubscriptions' = MapDelete(clientSubscriptions, id)
                       /\ subs'[s].isDestroyed
                       /\ \A u \in Tasks \ {s} : subs'[u] = subs[u] /\ sent'[u] = sent[u]
                ELSE /\ clientSubscriptions' = clientSubscriptions
                     /\ \A u \in Tasks : subs'[u] = subs[u] /\ sent'[u] = sent[u]]_vars

\* a subscription.stop for an id that was never tracked, while another
\* subscription is tracked: nothing was posted for the stop and the other
\* subscription is live and tracked
C15_Witness ==
  \E t, u \in Tasks :
    /\ t < u
    /\ tasks[t].method = "subscription" /\ tasks[t].id = Str("a")
    /\ tasks[u].method = "subscription.stop" /\ tasks[u].id = Num("1")
    /\ sent[u] = <<>> /\ listenerSent = <<>>
    /\ subs[t].listening /\ ~subs[t].isDestroyed
    /\ clientSubscriptions = <<[key |-> Str("a"), sub |-> t]>>

StoppedCount(envelopes) ==
  Cardinality({i \in 1..Len(envelopes) : envelopes[i].kind = "stopped"})

\* C16: in every step of close, clientSubscriptions ends empty, every
\* subscription that was tracked ends destroyed, one 'stopped' envelope is
\* posted for each that was not destroyed before and none for the others,
\* and the subscriptions that were not tracked are unchanged.
C16_CloseDestroysAllTracked ==
  [][Close =>
       /\ clientSubscriptions' = <<>>
       /\ \A i \in 1..Len(clientSubscriptions) :
            LET s == clientSubscriptions[i].sub IN
              /\ subs'[s].isDestroyed
              /\ StoppedCount(sent'[s]) =
                   StoppedCount(sent[s]) + (IF subs[s].isDestroyed THEN 0 ELSE 1)
       /\ \A u \in Tasks :
            (\A i \in 1..Len(clientSubscriptions) : clientSubscriptions[i].sub # u) =>
               (subs'[u] = subs[u] /\ sent'[u] = sent[u])]_vars

\* two subscriptions were accepted and no subscription.stop was handled:
\* close has destroyed both and emptied clientSubscriptions
C16_Witness ==
  /\ Len(tasks) = 2
  /\ \A t \in Tasks :
       /\ tasks[t].method = "subscription"
       /\ subs[t].started /\ subs[t].isDestroyed
       /\ StoppedCount(sent[t]) = 1
  /\ tasks[1].id # tasks[2].id
  /\ clientSubscriptions = <<>>

(***************************************************************************)
(* Further claims about Procedure.call                                     *)
(***************************************************************************)
NoResultError ==
  TRPCError("INTERNAL_SERVER_ERROR", "No result from middlewares", NoCause)

\* C17: a call whose chain hands Procedure.call no result object has thrown
\* the INTERNAL_SERVER_ERROR 'No result from middlewares' error, whether or
\* not the resolver ran and returned; and a call that has returned has
\* returned the parsed output, never an undefined value.
C17_NoResultIsInternalError ==
  procPc = "done" =>
    /\ (~ret.threw /\ ~ret.value.def) =>
          (outcome.status = "threw" /\ outcome.error = NoResultError)
    /\ outcome.status = "returned" => outcome.data = "parsedOutput"

\* the outermost middleware called next and did not return its result, the
\* resolver ran and its output passed the output parser
C17_Witness ==
  /\ procPc = "done"
  /\ Len(middlewares) = 2 /\ middlewares[1].kind = "forget" /\ middlewares[2].kind = "pass"
  /\ ResolverCalls = 1 /\ rawOutput = "goodOutput"
  /\ outcome.status = "threw" /\ outcome.error = NoResultError

\* the error a step of the chain throws in this step, when it throws one
StepThrows(e) ==
  \/ /\ procPc = "step" /\ idx <= Len(middlewares) /\ middlewares[idx].kind = "throw"
     /\ e = PlainError("middleware")
  \/ /\ procPc = "step" /\ idx = ResolverAt /\ parseInput(callOpts.rawInput).threw
     /\ e = parseInput(callOpts.rawInput).error
  \/ /\ procPc = "resolver" /\ procPc' = "return"
     /\ e = PlainError("resolver")
  \/ /\ procPc = "parseOutput" /\ parseOutput(rawOutput).threw
     /\ e = parseOutput(rawOutput).error
  \/ /\ procPc = "return" /\ idx >= 1 /\ middlewares[idx].kind = "throwAfter"
     /\ e = PlainError("middleware")

Errors ==
  {PlainError("middleware"), PlainError("resolver"),
   parseInput("badInput").error, parseOutput("badOutput").error}

\* C19: no call of next throws: in every step in which a middleware, the
\* input parser, the resolver or the output parser throws e, the call of next
\* that ran it returns {ok:false, error: getErrorFromUnknown(e)}; a
\* middleware that throws after next has returned ends with its own error
\* whatever next returned; and a call whose final result is ok:false has
\* thrown the error of that result.
C19_NextReturnsErrorsCallRethrows ==
  /\ [](/\ ~ret.threw
        /\ (procPc = "done" /\ ret.value.def /\ ~ret.value.ok) =>
              (outcome.status = "threw" /\ outcome.error = ret.value.error)
        /\ (procPc = "done" /\ Len(middlewares) >= 1 /\ middlewares[1].kind = "throwAfter") =>
              outcome.error = getErrorFromUnknown(PlainError("middleware")))
  /\ [][\A e \in Errors :
          StepThrows(e) => ret' = Returned(ErrResult(getErrorFromUnknown(e)))]_vars

\* the resolver threw under two middlewares that return what next returned:
\* each got the {ok:false} result and the call threw the resolver's error
C19_Witness ==
  /\ procPc = "done" /\ InputPasses /\ AllWellBehaved
  /\ Len(middlewares) = 2
  /\ ResolverCalls = 1 /\ rawOutput = "none"
  /\ ret = Returned(ErrResult(getErrorFromUnknown(PlainError("resolver"))))
  /\ outcome.status = "threw"
  /\ outcome.error = getErrorFromUnknown(PlainError("resolver"))

(***************************************************************************)
(* Claims about observable.subscribe                                       *)
(***************************************************************************)
Terminal == {"error", "complete"}
TerminalsObserved == Cardinality({i \in 1..Len(observed) : observed[i] \in Terminal})
UnsubscribeCalled == \E i \in 1..Len(history) : history[i] = "unsubscribe"
\* the producer makes a call of next, error or complete in this step
Emits(sig) == Len(history') = Len(history) + 1 /\ history'[Len(history')] = sig

\* C12: whatever calls of unsubscribe, error and complete were made, from
\* outside or from inside the teardown, the producer's teardown was executed
\* at most once, and not at all unless it was asked for.
C12_TeardownAtMostOnce ==
  /\ teardownRuns <= 1
  /\ teardownRuns = 1 => (unsubscribed /\ teardownRef \in Teardowns)

\* the consumer has unsubscribed twice and the producer has called error, with
\* a teardown that calls unsubscribe itself: the teardown ran once
C12_Witness ==
  /\ teardownRuns = 1 /\ producer.reenters
  /\ UnsubscribeCalls = 2
  /\ \E i \in 1..Len(history) : history[i] \in Terminal

\* C13: the observer has received at most one error or complete, nothing
\* after it, and nothing for a call the producer made after its first call of
\* error or complete; in every step taken when the producer has called error
\* or complete no observer callback is invoked.
C13_LatchedDone ==
  /\ [](/\ TerminalsObserved <= 1
        /\ \A i \in 1..Len(observed) : observed[i] \in Terminal => i = Len(observed)
        /\ (\E i \in 1..Len(history) : history[i] \in Terminal) <=> isDone
        /\ isDone => TerminalsObserved = 1)
  /\ [][isDone => observed' = observed]_vars

\* the producer has called error, then next, then complete: the observer got
\* the error alone
C13_Witness ==
  /\ history = <<"error", "next", "complete">>
  /\ observed = <<"error">>

\* C14: an unsubscribe asked for while the producer function runs is carried
\* out in the step in which the producer function returns: the teardown it
\* returns is executed then, once; it is executed before that in no case,
\* and no later unsubscribe executes it again.
C14_DeferredTeardownRunsOnce ==
  /\ [](/\ obsPc = "producer" => teardownRuns = 0
        /\ (obsPc = "producer" /\ isDone) => teardownImmediately
        /\ (obsPc = "active" /\ teardownImmediately) =>
              /\ unsubscribed
              /\ teardownRuns = (IF producer.teardown \in Teardowns THEN 1 ELSE 0))
  /\ [][(obsPc = "producer" /\ obsPc' = "active") =>
          teardownRuns' = (IF teardownImmediately /\ producer.teardown \in Teardowns
                             THEN 1 ELSE 0)]_vars

\* the producer completed inside the producer function, and the consumer has
\* unsubscribed twice since: the teardown ran once
C14_Witness ==
  /\ obsPc = "active" /\ teardownImmediately
  /\ history = <<"complete", "unsubscribe", "unsubscribe">>
  /\ producer.teardown = "function"
  /\ teardownRuns = 1

\* C20 as claimed: once the consumer has called unsubscribe, no observer
\* callback is invoked.
C20_Original ==
  [][UnsubscribeCalled => observed' = observed]_vars

\* C20: a call of unsubscribe by the consumer invokes no observer callback and
\* leaves the teardown the producer returned executed; what the producer emits
\* afterwards is withheld from the observer only if the producer has called
\* error or complete: otherwise its next, and its first error or complete,
\* reach the observer.
C20_UnsubscribeRunsTeardownOnly ==
  /\ [](UnsubscribeCalled =>
          /\ unsubscribed
          /\ teardownRuns = (IF producer.teardown \in Teardowns THEN 1 ELSE 0))
  /\ [][/\ Emits("unsubscribe") => observed' = observed
        /\ \A sig \in Signals :
             (UnsubscribeCalled /\ Emits(sig)) =>
                observed' = (IF isDone THEN observed ELSE Append(observed, sig))]_vars

\* the consumer has unsubscribed, the teardown ran, and the next the producer
\* called afterwards reached the observer
C20_Witness ==
  /\ history = <<"unsubscribe", "next">>
  /\ observed = <<"next">>
  /\ producer.teardown = "function" /\ teardownRuns = 1

====
